---- MODULE Spec2Model ----
(***************************************************************************)
(* A model of subiquity/ui/views/snaplist.py: the snap list screen         *)
(* (SnapListView), its rows (SnapCheckBox), the detail view (SnapInfoView) *)
(* with its row allocation, and the FetchingInfo / FetchingFailed dialogs. *)
(***************************************************************************)
EXTENDS Integers, Sequences, FiniteSets, TLC

\* ------------------------------------------------------------------ bounds
\* Largest rows_available / rows_wanted_* a render is given.
MaxRows == 7
\* rows_available = maxrow - (rows of the packed widgets) can fall below 0.
MaxDeficit == 2

\* The row counts of the worked examples, beyond MaxRows.
ExampleRows == {9, 10, 20}
RowCounts == (0..MaxRows) \cup ExampleRows

Max(a, b) == IF a >= b THEN a ELSE b
Min(a, b) == IF a <= b THEN a ELSE b

\* ---------------------------------------------------------- SnapInfoView
\* a < n/d for Python's true division of the integers n >= 0 and d > 0:
\* n/d = q + r/d with q the whole part and r the remainder.
TrueDivLess(a, n, d) ==
    IF n >= 0
    THEN LET q == n \div d
             r == n % d
         IN  a < q \/ (a = q /\ r > 0)
    ELSE a < 0 - ((0 - n) \div d)

\* int(n/d): the quotient truncated towards zero.
IntTrunc(n, d) == IF n >= 0 THEN n \div d ELSE 0 - ((0 - n) \div d)

\* The same allocation with "<=" in place of "<" in the two-thirds test.
split_le(rows_available, rows_wanted_description, rows_wanted_channels) ==
    IF rows_wanted_channels + rows_wanted_description <= rows_available
    THEN [description_rows |-> rows_wanted_description,
          channel_rows |-> rows_wanted_channels]
    ELSE IF ~TrueDivLess(2 * rows_available, 3 * rows_wanted_description, 1)
         THEN [description_rows |-> rows_wanted_description,
               channel_rows |-> rows_available - rows_wanted_description]
         ELSE LET channel_rows ==
                      Max(Min(rows_wanted_channels, IntTrunc(rows_available, 3)), 3)
              IN  [description_rows |-> rows_available - channel_rows,
                   channel_rows |-> channel_rows]

\* The same allocation with the channel list absorbing the rest when both fit.
split_absorb(rows_available, rows_wanted_description, rows_wanted_channels) ==
    IF rows_wanted_channels + rows_wanted_description <= rows_available
       \/ TrueDivLess(rows_wanted_description, 2 * rows_available, 3)
    THEN [description_rows |-> rows_wanted_description,
          channel_rows |-> rows_available - rows_wanted_description]
    ELSE LET channel_rows ==
                 Max(Min(rows_wanted_channels, IntTrunc(rows_available, 3)), 3)
         IN  [description_rows |-> rows_available - channel_rows,
              channel_rows |-> channel_rows]

\* The same allocation without the floor of 3 rows for the channel list.
split_nofloor(rows_available, rows_wanted_description, rows_wanted_channels) ==
    IF rows_wanted_channels + rows_wanted_description <= rows_available
    THEN [description_rows |-> rows_wanted_description,
          channel_rows |-> rows_wanted_channels]
    ELSE IF TrueDivLess(rows_wanted_description, 2 * rows_available, 3)
         THEN [description_rows |-> rows_wanted_description,
               channel_rows |-> rows_available - rows_wanted_description]
         ELSE LET channel_rows ==
                      Min(rows_wanted_channels, IntTrunc(rows_available, 3))
              IN  [description_rows |-> rows_available - channel_rows,
                   channel_rows |-> channel_rows]

\* The same allocation, whose two-thirds branch gives the channel list a
\* third of the rows whatever it wants.
split_third(rows_available, rows_wanted_description, rows_wanted_channels) ==
    IF rows_wanted_channels + rows_wanted_description <= rows_available
    THEN [description_rows |-> rows_wanted_description,
          channel_rows |-> rows_wanted_channels]
    ELSE IF TrueDivLess(rows_wanted_description, 2 * rows_available, 3)
         THEN [description_rows |-> rows_wanted_description,
               channel_rows |-> rows_available - rows_wanted_description]
         ELSE LET channel_rows == Max(IntTrunc(rows_available, 3), 3)
              IN  [description_rows |-> rows_available - channel_rows,
                   channel_rows |-> channel_rows]

\* SnapInfoView.render, the allocation of rows to the description and to the
\* channel list.
split(rows_available, rows_wanted_description, rows_wanted_channels) ==
    IF rows_wanted_channels + rows_wanted_description <= rows_available
    THEN [description_rows |-> rows_wanted_description,
          channel_rows |-> rows_wanted_channels]
    ELSE IF TrueDivLess(rows_wanted_description, 2 * rows_available, 3)
         THEN [description_rows |-> rows_wanted_description,
               channel_rows |-> rows_available - rows_wanted_description]
         ELSE LET channel_rows ==
                      Max(Min(rows_wanted_channels, IntTrunc(rows_available, 3)), 3)
              IN  [description_rows |-> rows_available - channel_rows,
                   channel_rows |-> channel_rows]

\* format_datetime(d), datetime.datetime.now() being `now`; instants are in
\* whole seconds, str(d.date()) is the number of d's day, and
\* "{amount:2}" pads the amount to two places.
MaxDays == 31
str_date(d) == "date " \o ToString(d \div (60 * 60 * 24))
ago(amount, unit) ==
    (IF amount < 10 THEN " " ELSE "") \o ToString(amount)
        \o " " \o unit \o " ago"

\* The same function, taking a minute for "just now" too.
format_datetime_le(d, now) ==
    LET total_seconds == now - d
        days == total_seconds \div (60 * 60 * 24)
    IN  IF total_seconds <= 60
        THEN "just now"
        ELSE IF total_seconds < 60 * 60
        THEN LET amount == IntTrunc(total_seconds, 60)
             IN  ago(amount, IF amount = 1 THEN "minute" ELSE "minutes")
        ELSE IF total_seconds < 60 * 60 * 24
        THEN LET amount == IntTrunc(total_seconds, 60 * 60)
             IN  ago(amount, IF amount = 1 THEN "hour" ELSE "hours")
        ELSE IF days < 30
        THEN ago(days, IF days = 1 THEN "day" ELSE "days")
        ELSE str_date(d)

format_datetime(d, now) ==
    LET total_seconds == now - d
        days == total_seconds \div (60 * 60 * 24)
    IN  IF total_seconds < 60
        THEN "just now"
        ELSE IF total_seconds < 60 * 60
        THEN LET amount == IntTrunc(total_seconds, 60)
             IN  ago(amount, IF amount = 1 THEN "minute" ELSE "minutes")
        ELSE IF total_seconds < 60 * 60 * 24
        THEN LET amount == IntTrunc(total_seconds, 60 * 60)
             IN  ago(amount, IF amount = 1 THEN "hour" ELSE "hours")
        ELSE IF days < 30
        THEN ago(days, IF days = 1 THEN "day" ELSE "days")
        ELSE str_date(d)

\* SnapInfoView.__init__: the fields render reads and writes.  Nothing has
\* been rendered yet; info_padding.right is what Padding.pull_1 left it.
NewSnapInfoView(right) ==
    [needs_focus |-> TRUE, selectable |-> TRUE, right |-> right,
     rendered |-> FALSE, focus_moves |-> 0,
     rows_available |-> 0, rows_wanted_description |-> 0,
     rows_wanted_channels |-> 0, description_rows |-> 0, channel_rows |-> 0]

\* The same render, never taking the description out of the focus order
\* again.
render_sticky(v, rows_available, rows_wanted_description, rows_wanted_channels) ==
    LET a == split(rows_available, rows_wanted_description, rows_wanted_channels)
    IN  [needs_focus |-> FALSE,
         selectable |-> v.selectable
                            \/ ~(a.description_rows >= rows_wanted_description),
         right |-> IF a.channel_rows >= rows_wanted_channels THEN 0 ELSE 1,
         rendered |-> TRUE,
         focus_moves |-> IF v.needs_focus THEN v.focus_moves + 1 ELSE v.focus_moves,
         rows_available |-> rows_available,
         rows_wanted_description |-> rows_wanted_description,
         rows_wanted_channels |-> rows_wanted_channels,
         description_rows |-> a.description_rows,
         channel_rows |-> a.channel_rows]

\* The same render, leaving needs_focus as it finds it.
render_refocus(v, rows_available, rows_wanted_description, rows_wanted_channels) ==
    LET a == split(rows_available, rows_wanted_description, rows_wanted_channels)
    IN  [needs_focus |-> v.needs_focus,
         selectable |-> ~(a.description_rows >= rows_wanted_description),
         right |-> IF a.channel_rows >= rows_wanted_channels THEN 0 ELSE 1,
         rendered |-> TRUE,
         focus_moves |-> IF v.needs_focus THEN v.focus_moves + 1 ELSE v.focus_moves,
         rows_available |-> rows_available,
         rows_wanted_description |-> rows_wanted_description,
         rows_wanted_channels |-> rows_wanted_channels,
         description_rows |-> a.description_rows,
         channel_rows |-> a.channel_rows]

\* SnapInfoView.render on the view v.
render(v, rows_available, rows_wanted_description, rows_wanted_channels) ==
    LET a == split(rows_available, rows_wanted_description, rows_wanted_channels)
    IN  [needs_focus |-> FALSE,
         selectable |-> ~(a.description_rows >= rows_wanted_description),
         right |-> IF a.channel_rows >= rows_wanted_channels THEN 0 ELSE 1,
         rendered |-> TRUE,
         focus_moves |-> IF v.needs_focus THEN v.focus_moves + 1 ELSE v.focus_moves,
         rows_available |-> rows_available,
         rows_wanted_description |-> rows_wanted_description,
         rows_wanted_channels |-> rows_wanted_channels,
         description_rows |-> a.description_rows,
         channel_rows |-> a.channel_rows]

\* ------------------------------------------------------------ the screen
\* The snaps the store can offer and the channel lists an info fetch can
\* leave in snap.channels (the empty list is a failed fetch).
SnapNames == {"lxd", "docker"}
SnapConfinement(name) == IF name = "docker" THEN "classic" ELSE "strict"
CSI(channel_name, confinement) ==
    [channel_name |-> channel_name, confinement |-> confinement]
ChannelLists == {{}, {CSI("stable", "strict"), CSI("edge", "classic")}}
SnapLists == SUBSET SnapNames

\* The seed.yaml documents the installer can meet: no file, a file that is
\* not YAML, a file naming the pre-seeded snaps.
SeedFile(kind, names) == [kind |-> kind, names |-> names]
SeedFiles == {SeedFile("missing", {}), SeedFile("invalid", {}),
              SeedFile("ok", {}), SeedFile("ok", {"docker"})}
\* What get_seed_yaml reads when the main screen is built, which happens at
\* most once: controller.opts.dry_run, whether installpath.sources is one
\* cp:// source, and the seed file.  A dry run never reads the seed file.
Envs == {[dry_run |-> TRUE, sources_ok |-> ok, seed |-> SeedFile("missing", {})]
            : ok \in BOOLEAN}
        \cup {[dry_run |-> FALSE, sources_ok |-> FALSE,
               seed |-> SeedFile("missing", {})]}
        \cup {[dry_run |-> FALSE, sources_ok |-> TRUE, seed |-> f] : f \in SeedFiles}

\* Retries of the list fetch and info fetches a run may start.
MaxListFetches == 2
MaxInfoFetches == 2

NoSnap == ""
NoChannel == ""
Title == "Featured Server Snaps"

SnapSelection(channel, is_classic) ==
    [channel |-> channel, is_classic |-> is_classic]

\* self._w: a screen and the dialogs overlaid on it, the topmost last.
Screen(kind) ==
    [screen |-> kind, snap |-> NoSnap, csis |-> {}, radio |-> NoChannel,
     overlays |-> <<>>]
\* screen(siv, [Close]) of SnapInfoView(parent, snap, cur_channel): one radio
\* button per channel, the one named cur_channel set.
DetailScreen(name, csis, cur_channel) ==
    [screen |-> "detail", snap |-> name, csis |-> csis,
     radio |-> IF \E c \in csis : c.channel_name = cur_channel
               THEN cur_channel ELSE NoChannel,
     overlays |-> <<>>]

Put(f, k, v) == [x \in DOMAIN f \cup {k} |-> IF x = k THEN v ELSE f[x]]
Pop(f, k) == [x \in DOMAIN f \ {k} |-> f[x]]
EmptyMap == [x \in {} |-> FALSE]

\* The state before SnapListView.__init__ calls load().
Blank ==
    [w |-> Screen("none"), main_screen |-> FALSE, snap_boxes |-> EmptyMap,
     to_install |-> EmptyMap, dialogs |-> <<>>, info_fetches |-> {},
     info_calls |-> [sync \in BOOLEAN |-> 0],
     list_fetches |-> <<>>, header |-> "",
     controller |-> [done |-> <<>>, cancel |-> 0],
     error |-> "none"]

Raise(s, exception) == [s EXCEPT !.error = exception]
Ok(s) == s.error = "none"

\* BaseView.show_overlay / remove_overlay: wrap self._w in an Overlay, and
\* unwrap it (self._w.bottom_w), which fails when self._w is no Overlay.
show_overlay(s, d) == [s EXCEPT !.w.overlays = Append(@, d)]
remove_overlay(s) ==
    IF s.w.overlays = <<>>
    THEN Raise(s, "AttributeError")
    ELSE [s EXCEPT !.w.overlays = SubSeq(@, 1, Len(@) - 1)]

offer_retry(s) == [s EXCEPT !.w = Screen("retry")]

show_main_screen(s) ==
    LET s1 == [s EXCEPT !.header = Title]
    IN  IF s1.main_screen
        THEN [s1 EXCEPT !.w = Screen("main")]
        ELSE Raise(s1, "AttributeError")

show_screen(s, screen) == [s EXCEPT !.w = screen]

\* get_seed_yaml: the text it returns, or the exception it raises.
DryRunSeed == SeedFile("ok", {"core", "lxd"})
get_seed_yaml(env) ==
    IF env.dry_run
    THEN [error |-> "none", yaml |-> DryRunSeed]
    ELSE IF ~env.sources_ok
         THEN [error |-> "UnboundLocalError", yaml |-> SeedFile("missing", {})]
         ELSE IF env.seed.kind = "missing"
              THEN [error |-> "UnboundLocalError", yaml |-> env.seed]
              ELSE [error |-> "none", yaml |-> env.seed]

get_preinstalled_snaps(env) ==
    LET y == get_seed_yaml(env)
    IN  IF y.error # "none"
        THEN [error |-> y.error, names |-> {}]
        ELSE IF y.yaml.kind = "invalid"
             THEN [error |-> "none", names |-> {}]
             ELSE [error |-> "none", names |-> y.yaml.names]

\* The same screen, with a row for every fetched snap, pre-seeded or not.
make_main_screen_nofilter(s, snap_list, env) ==
    LET s1 == [s EXCEPT !.snap_boxes = EmptyMap]
        preinstalled == get_preinstalled_snaps(env)
    IN  IF preinstalled.error # "none"
        THEN Raise(s1, preinstalled.error)
        ELSE [s1 EXCEPT !.snap_boxes = [n \in snap_list |-> FALSE],
                        !.main_screen = TRUE]

make_main_screen(s, snap_list, env) ==
    LET s1 == [s EXCEPT !.snap_boxes = EmptyMap]
        preinstalled == get_preinstalled_snaps(env)
    IN  IF preinstalled.error # "none"
        THEN Raise(s1, preinstalled.error)
        ELSE [s1 EXCEPT !.snap_boxes =
                            [n \in snap_list \ preinstalled.names |-> FALSE],
                        !.main_screen = TRUE]

\* The callback of list fetch i, given the fetched list.
load_callback(s, i, snap_list, env) ==
    LET s1 == [s EXCEPT !.list_fetches[i].called = TRUE,
                        !.list_fetches[i].spinner =
                            IF @ = "none" THEN @ ELSE "stopped"]
    IN  IF snap_list = {}
        THEN offer_retry(s1)
        ELSE LET s2 == make_main_screen(s1, snap_list, env)
             IN  IF Ok(s2) THEN show_main_screen(s2) ELSE s2

\* The same load, showing the spinner without looking at `called`.
load_nocheck(s, sync, snap_list, env) ==
    LET i == Len(s.list_fetches) + 1
        s0 == [s EXCEPT !.list_fetches =
                  Append(@, [sync |-> sync, called |-> FALSE, spinner |-> "none"])]
        s1 == IF sync THEN load_callback(s0, i, snap_list, env) ELSE s0
    IN  IF ~Ok(s1) THEN s1
        ELSE [s1 EXCEPT !.list_fetches[i].spinner = "running",
                        !.w = Screen("loading")]

\* SnapListView.load; sync: controller.get_snap_list calls the callback,
\* with snap_list, before it returns.
load(s, sync, snap_list, env) ==
    LET i == Len(s.list_fetches) + 1
        s0 == [s EXCEPT !.list_fetches =
                  Append(@, [sync |-> sync, called |-> FALSE, spinner |-> "none"])]
        s1 == IF sync THEN load_callback(s0, i, snap_list, env) ELSE s0
    IN  IF ~Ok(s1) \/ s1.list_fetches[i].called
        THEN s1
        ELSE [s1 EXCEPT !.list_fetches[i].spinner = "running",
                        !.w = Screen("loading")]

\* The same done, handing the selections over and forgetting them.
done_cleared(s) ==
    [s EXCEPT !.controller.done = Append(@, s.to_install),
              !.to_install = EmptyMap]

done(s) == [s EXCEPT !.controller.done = Append(@, s.to_install)]

cancel(s) ==
    IF ~s.main_screen
    THEN Raise(s, "AttributeError")
    ELSE IF s.w = Screen("main")
         THEN [s EXCEPT !.controller.cancel = @ + 1]
         ELSE show_main_screen(s)

\* ---------------------------------------------------------- SnapCheckBox
\* The same handler, leaving to_install alone when the box is unchecked.
SnapCheckBox_state_change_keep(s, name, new_state) ==
    IF new_state
    THEN [s EXCEPT !.to_install =
              Put(@, name, SnapSelection("stable", SnapConfinement(name) = "classic"))]
    ELSE s

SnapCheckBox_state_change(s, name, new_state) ==
    IF new_state
    THEN [s EXCEPT !.to_install =
              Put(@, name, SnapSelection("stable", SnapConfinement(name) = "classic"))]
    ELSE [s EXCEPT !.to_install = Pop(@, name)]

\* CheckBox.set_state of the row of `name`: nothing when the state is
\* unchanged, else the change handler and then the new state.
set_state(s, name, state) ==
    IF s.snap_boxes[name] = state
    THEN s
    ELSE [SnapCheckBox_state_change(s, name, state)
             EXCEPT !.snap_boxes[name] = state]

\* The same handler, storing the selection before it checks the box.
SnapInfoView_state_change_swapped(s, name, state, selection) ==
    IF state
    THEN set_state([s EXCEPT !.to_install = Put(@, name, selection)], name, TRUE)
    ELSE s

\* SnapInfoView.state_change of the view of `name`.
SnapInfoView_state_change(s, name, state, selection) ==
    IF state
    THEN LET s1 == set_state(s, name, TRUE)
         IN  [s1 EXCEPT !.to_install = Put(@, name, selection)]
    ELSE s

\* -------------------------------------------------------------- dialogs
\* FetchingInfo.__init__ / FetchingFailed.__init__ (a FetchingInfo keeps no
\* reference to its snap, a FetchingFailed keeps its row); spinner_stops and
\* overlay_removes count the calls close makes.
FetchingInfo ==
    [kind |-> "FetchingInfo", snap |-> NoSnap, closed |-> FALSE,
     spinner |-> "running", spinner_stops |-> 0, overlay_removes |-> 0]
FetchingFailed(name) ==
    [kind |-> "FetchingFailed", snap |-> name, closed |-> FALSE,
     spinner |-> "none", spinner_stops |-> 0, overlay_removes |-> 0]

\* The same close, without the `closed` test.
close_always(s, d) ==
    LET s1 == [s EXCEPT !.dialogs[d].closed = TRUE,
                        !.dialogs[d].overlay_removes = @ + 1]
        s2 == IF s.dialogs[d].kind = "FetchingInfo"
              THEN [s1 EXCEPT !.dialogs[d].spinner = "stopped",
                              !.dialogs[d].spinner_stops = @ + 1]
              ELSE s1
    IN  remove_overlay(s2)

\* FetchingInfo.close / FetchingFailed.close of dialog d.
close(s, d) ==
    IF s.dialogs[d].closed
    THEN s
    ELSE LET s1 == [s EXCEPT !.dialogs[d].closed = TRUE,
                             !.dialogs[d].overlay_removes = @ + 1]
             s2 == IF s.dialogs[d].kind = "FetchingInfo"
                   THEN [s1 EXCEPT !.dialogs[d].spinner = "stopped",
                                   !.dialogs[d].spinner_stops = @ + 1]
                   ELSE s1
         IN  remove_overlay(s2)

\* The closure of a load_info call: self.snap and `fi` (0: None).  It is
\* live until its callback has run.
Closure(name, fi) == [snap |-> name, fi |-> fi]

\* The callback of the load_info closure f, snap.channels being csis.
load_info_callback(s, f, csis) ==
    LET s1 == [s EXCEPT !.info_fetches = @ \ {f}]
        s2 == IF f.fi # 0 THEN close(s1, f.fi) ELSE s1
    IN  IF ~Ok(s2) THEN s2
        ELSE IF csis = {}
        THEN LET ff == Len(s2.dialogs) + 1
             IN  show_overlay(
                     [s2 EXCEPT !.dialogs = Append(@, FetchingFailed(f.snap))], ff)
        ELSE LET cur_chan == IF f.snap \in DOMAIN s2.to_install
                             THEN s2.to_install[f.snap].channel
                             ELSE NoChannel
             IN  show_screen([s2 EXCEPT !.header = f.snap],
                             DetailScreen(f.snap, csis, cur_chan))

\* The same load_info, showing the dialog without looking at `called`.
load_info_nocheck(s, name, sync, csis) ==
    LET s0 == [s EXCEPT !.info_calls[sync] = @ + 1]
        s1 == IF sync THEN load_info_callback(s0, Closure(name, 0), csis) ELSE s0
    IN  IF ~Ok(s1) THEN s1
        ELSE LET fi == Len(s1.dialogs) + 1
             IN  show_overlay(
                     [s1 EXCEPT !.dialogs = Append(@, FetchingInfo),
                                !.info_fetches =
                                    IF sync THEN @ ELSE @ \cup {Closure(name, fi)}],
                     fi)

\* SnapCheckBox.load_info of the row of `name`; sync: controller.get_snap_info
\* calls the callback, with snap.channels = csis, before it returns (`called`
\* is then set), else the callback is left to be called later.
load_info(s, name, sync, csis) ==
    LET s0 == [s EXCEPT !.info_calls[sync] = @ + 1]
        s1 == IF sync THEN load_info_callback(s0, Closure(name, 0), csis) ELSE s0
    IN  IF ~Ok(s1) \/ sync
        THEN s1
        ELSE LET fi == Len(s1.dialogs) + 1
             IN  show_overlay(
                     [s1 EXCEPT !.dialogs = Append(@, FetchingInfo),
                                !.info_fetches = @ \cup {Closure(name, fi)}],
                     fi)

\* FetchingFailed.load of dialog d ("Try again").
FetchingFailed_load(s, d, sync, csis) ==
    LET s1 == close(s, d)
    IN  IF Ok(s1) THEN load_info(s1, s.dialogs[d].snap, sync, csis) ELSE s1

\* ---------------------------------------------------------------- state
VARIABLES
    view,          \* the layout fields of the SnapInfoView being rendered
    w,             \* SnapListView._w
    main_screen,   \* whether SnapListView._main_screen is set
    snap_boxes,    \* SnapListView.snap_boxes: name -> state of its SnapCheckBox
    to_install,    \* SnapListView.to_install: name -> SnapSelection
    dialogs,       \* the FetchingInfo / FetchingFailed dialogs created so far
    info_fetches,  \* the closures of the load_info calls still in flight
    info_calls,    \* how many load_info calls got their callback at once
                   \* (info_calls[TRUE]) and how many did not
    list_fetches,  \* the load calls: sync, `called`, `spinner`
    header,        \* what controller.ui.set_header was last given
    controller,    \* the calls of controller.done / controller.cancel
    error,         \* the exception that escaped a handler, or "none"
    formatted      \* the last format_datetime call: d, now and the text

screen_vars == <<w, main_screen, snap_boxes, to_install, dialogs, info_fetches,
                 info_calls, list_fetches, header, controller, error>>
vars == <<view, w, main_screen, snap_boxes, to_install, dialogs, info_fetches,
          info_calls, list_fetches, header, controller, error, formatted>>

St == [w |-> w, main_screen |-> main_screen, snap_boxes |-> snap_boxes,
       to_install |-> to_install, dialogs |-> dialogs,
       info_fetches |-> info_fetches, info_calls |-> info_calls,
       list_fetches |-> list_fetches,
       header |-> header, controller |-> controller, error |-> error]

Is(s) ==
    /\ w = s.w /\ main_screen = s.main_screen /\ snap_boxes = s.snap_boxes
    /\ to_install = s.to_install /\ dialogs = s.dialogs
    /\ info_fetches = s.info_fetches /\ info_calls = s.info_calls
    /\ list_fetches = s.list_fetches
    /\ header = s.header /\ controller = s.controller /\ error = s.error

Becomes(s) ==
    /\ w' = s.w /\ main_screen' = s.main_screen /\ snap_boxes' = s.snap_boxes
    /\ to_install' = s.to_install /\ dialogs' = s.dialogs
    /\ info_fetches' = s.info_fetches /\ info_calls' = s.info_calls
    /\ list_fetches' = s.list_fetches
    /\ header' = s.header /\ controller' = s.controller /\ error' = s.error
    /\ UNCHANGED <<view, formatted>>

\* No timestamp formatted yet.
NoFormat == [d |-> 0, now |-> 0, text |-> ""]

\* SnapListView.__init__: to_install = {} and load().  The layout fields of a
\* detail view are written by render alone and read by nothing else of the
\* screen: Spec follows the screen, SpecRender the renders of a view.
Init ==
    /\ view = NewSnapInfoView(0)
    /\ formatted = NoFormat
    /\ \E e \in Envs, sync \in BOOLEAN, snap_list \in SnapLists :
           Is(load(Blank, sync, snap_list, e))

\* The screen takes events until an exception escapes or the controller is
\* told done or cancel.
Active == error = "none" /\ controller.done = <<>> /\ controller.cancel = 0
NoOverlay == w.overlays = <<>>
TopDialog == w.overlays[Len(w.overlays)]
InfoCalls == info_calls[TRUE] + info_calls[FALSE]

\* The controller calls the callback of a list fetch in flight.
LoadCallbackOf(i, snap_list, e) ==
    /\ ~list_fetches[i].called
    /\ Becomes(load_callback(St, i, snap_list, e))

LoadCallback ==
    /\ Active
    /\ \E i \in DOMAIN list_fetches, snap_list \in SnapLists, e \in Envs :
           LoadCallbackOf(i, snap_list, e)

\* "Try again" on the retry screen.
TryAgain ==
    /\ Active /\ NoOverlay /\ w.screen = "retry"
    /\ Len(list_fetches) < MaxListFetches
    /\ \E sync \in BOOLEAN, snap_list \in SnapLists, e \in Envs :
           Becomes(load(St, sync, snap_list, e))

\* "Continue" on the loading and retry screens, "Done" on the main screen.
Done ==
    /\ Active /\ NoOverlay /\ w.screen \in {"loading", "retry", "main"}
    /\ Becomes(done(St))

\* cancel(): "Back" on the main screen, or the view's cancel key.
Cancel ==
    /\ Active /\ NoOverlay /\ w.screen # "none"
    /\ Becomes(cancel(St))

\* SPACE on a row of the main screen.
Toggle ==
    /\ Active /\ NoOverlay /\ w.screen = "main"
    /\ \E name \in DOMAIN snap_boxes :
           Becomes(set_state(St, name, ~snap_boxes[name]))

\* ENTER on a row of the main screen: SnapCheckBox.keypress.
Enter ==
    /\ Active /\ NoOverlay /\ w.screen = "main"
    /\ InfoCalls < MaxInfoFetches
    /\ \E name \in DOMAIN snap_boxes, sync \in BOOLEAN, csis \in ChannelLists :
           Becomes(load_info(St, name, sync, csis))

\* The controller calls the callback of an info fetch in flight.
LoadInfoCallback ==
    /\ Active
    /\ \E f \in info_fetches, csis \in ChannelLists :
           Becomes(load_info_callback(St, f, csis))

\* A radio button of the detail view is chosen: RadioButton.set_state(True)
\* calls state_change(True, selection), then state_change(False) of the
\* button it clears.
ChooseChannelOf(csi) ==
    /\ csi.channel_name # w.radio
    /\ LET sel == SnapSelection(csi.channel_name, csi.confinement = "classic")
           s1 == SnapInfoView_state_change(St, w.snap, TRUE, sel)
           s2 == [s1 EXCEPT !.w.radio = csi.channel_name]
       IN  Becomes(SnapInfoView_state_change(s2, w.snap, FALSE, sel))

ChooseChannel ==
    /\ Active /\ NoOverlay /\ w.screen = "detail"
    /\ \E csi \in w.csis : ChooseChannelOf(csi)

\* "Close" on the detail screen.
CloseDetail ==
    /\ Active /\ NoOverlay /\ w.screen = "detail"
    /\ Becomes(show_main_screen(St))

\* "Cancel" on the topmost dialog.
DialogCancel ==
    /\ Active /\ ~NoOverlay
    /\ Becomes(close(St, TopDialog))

\* "Try again" on the topmost dialog, a FetchingFailed.
DialogTryAgain ==
    /\ Active /\ ~NoOverlay
    /\ dialogs[TopDialog].kind = "FetchingFailed"
    /\ InfoCalls < MaxInfoFetches
    /\ \E sync \in BOOLEAN, csis \in ChannelLists :
           Becomes(FetchingFailed_load(St, TopDialog, sync, csis))

Next ==
    \/ LoadCallback \/ TryAgain \/ Done \/ Cancel \/ Toggle \/ Enter
    \/ LoadInfoCallback \/ ChooseChannel \/ CloseDetail \/ DialogCancel
    \/ DialogTryAgain

Spec == Init /\ [][Next]_vars

\* ------------------------------------------------------ rendering a view
\* A detail view on screen: docker's, opened from the main screen of a dry
\* run.
DetailShown ==
    load_info(load(Blank, TRUE, {"docker"},
                   [dry_run |-> TRUE, sources_ok |-> TRUE,
                    seed |-> SeedFile("missing", {})]),
              "docker", TRUE, {CSI("stable", "strict"), CSI("edge", "classic")})

RenderInit ==
    /\ \E right \in {0, 1} : view = NewSnapInfoView(right)
    /\ Is(DetailShown)
    /\ formatted = NoFormat

Render ==
    /\ w.screen = "detail"
    /\ \E rows_available \in ((0 - MaxDeficit)..0) \cup RowCounts,
          rows_wanted_description \in RowCounts,
          rows_wanted_channels \in RowCounts :
           view' = render(view, rows_available, rows_wanted_description,
                          rows_wanted_channels)
    /\ UNCHANGED <<screen_vars, formatted>>

RenderNext == Render

SpecRender == RenderInit /\ [][RenderNext]_vars

\* ------------------------------------------------ formatting timestamps
\* The released_at of a channel row of a detail view is formatted when the
\* view is built: d is `age` seconds before now, the age being whole days up
\* to MaxDays plus some hours, minutes and seconds.
Ages ==
    {((days * 24 + hours) * 60 + minutes) * 60 + seconds :
        days \in 0..MaxDays, hours \in {0, 1, 23}, minutes \in {0, 1, 59},
        seconds \in {0, 59}}
Nows == {(MaxDays + 1) * (60 * 60 * 24) + time : time \in {0, 12 * 60 * 60}}
Formatted(d, now) == [d |-> d, now |-> now, text |-> format_datetime(d, now)]

FormatInit ==
    /\ view = NewSnapInfoView(0)
    /\ Is(DetailShown)
    /\ \E now \in Nows, age \in Ages : formatted = Formatted(now - age, now)

Format ==
    /\ \E now \in Nows, age \in Ages : formatted' = Formatted(now - age, now)
    /\ UNCHANGED <<view, screen_vars>>

FormatNext == Format

SpecFormat == FormatInit /\ [][FormatNext]_vars

\* ------------------------------------------------- building the rows
\* The list screen without its detail views, over a store of three snaps
\* and every set of pre-seeded names.
ListNames == SnapNames \cup {"core"}
ListLists == SUBSET ListNames
ListEnvs ==
    Envs \cup {[dry_run |-> FALSE, sources_ok |-> TRUE, seed |-> SeedFile("ok", P)]
                  : P \in SUBSET ListNames}

ListInit ==
    /\ view = NewSnapInfoView(0)
    /\ formatted = NoFormat
    /\ \E e \in ListEnvs, sync \in BOOLEAN, snap_list \in ListLists :
           Is(load(Blank, sync, snap_list, e))

ListLoadCallback ==
    /\ Active
    /\ \E i \in DOMAIN list_fetches, snap_list \in ListLists, e \in ListEnvs :
           LoadCallbackOf(i, snap_list, e)

ListTryAgain ==
    /\ Active /\ NoOverlay /\ w.screen = "retry"
    /\ Len(list_fetches) < MaxListFetches
    /\ \E sync \in BOOLEAN, snap_list \in ListLists, e \in ListEnvs :
           Becomes(load(St, sync, snap_list, e))

ListNext == ListLoadCallback \/ ListTryAgain \/ Done \/ Cancel \/ Toggle

SpecList == ListInit /\ [][ListNext]_vars

\* ------------------------------------------------------------------ claims
\* What the last render was given and what it allocated.
availableRows == view.rows_available
wantedA == view.rows_wanted_description
wantedB == view.rows_wanted_channels
rowsA == view.description_rows
rowsB == view.channel_rows
Rendered(a, wa, wb) ==
    view.rendered /\ availableRows = a /\ wantedA = wa /\ wantedB = wb

\* C1: for availableRows, wantedA, wantedB >= 0 the allocation of render is
\* the three-case rule: both wants when they fit; else wantedA and the rest
\* when 3*wantedA < 2*availableRows; else rowsB = max(min(wantedB,
\* floor(availableRows/3)), 3) and rowsA the rest.  split(20,5,3) = (5,3),
\* split(10,3,20) = (3,7), split(10,9,20) = (7,3).
C1_ThreeCaseRule ==
    (view.rendered /\ availableRows >= 0) =>
        /\ wantedA + wantedB <= availableRows
              => (rowsA = wantedA /\ rowsB = wantedB)
        /\ (wantedA + wantedB > availableRows /\ 3 * wantedA < 2 * availableRows)
              => (rowsA = wantedA /\ rowsB = availableRows - wantedA)
        /\ (wantedA + wantedB > availableRows /\ 3 * wantedA >= 2 * availableRows)
              => /\ rowsB = Max(Min(wantedB, availableRows \div 3), 3)
                 /\ rowsA = availableRows - rowsB
        /\ Rendered(20, 5, 3) => (rowsA = 5 /\ rowsB = 3)
        /\ Rendered(10, 3, 20) => (rowsA = 3 /\ rowsB = 7)
        /\ Rendered(10, 9, 20) => (rowsA = 7 /\ rowsB = 3)

C1_Witness == Rendered(10, 9, 20) /\ rowsA = 7 /\ rowsB = 3

\* C2 as stated: when both wants fit, the two allocations add up to the
\* available rows.
C2_Original ==
    (view.rendered /\ availableRows >= 0 /\ wantedA + wantedB <= availableRows)
        => rowsA + rowsB = availableRows

\* C2 as amended: when both wants fit, the two allocations add up to
\* wantedA + wantedB, each panel getting its want, which is at most (and not
\* always equal to) the available rows.
C2_SumOfWants ==
    (view.rendered /\ availableRows >= 0 /\ wantedA + wantedB <= availableRows)
        => /\ rowsA + rowsB = wantedA + wantedB
           /\ rowsA = wantedA
           /\ rowsA + rowsB <= availableRows

C2_Witness == Rendered(20, 5, 3) /\ rowsA + rowsB = 8

\* C3: when the wants exceed the available rows the description is never
\* given a negative number of rows, also when availableRows < 3.
C3_DescriptionNotNegative ==
    (view.rendered /\ availableRows >= 0 /\ wantedA + wantedB > availableRows)
        => rowsA >= 0

\* C4 as stated: with availableRows >= 3 and the wants exceeding them, the
\* channel list gets at least 3 rows in both branches.
C4_Original ==
    (view.rendered /\ availableRows >= 3 /\ wantedA + wantedB > availableRows)
        => rowsB >= 3

\* C4 as amended: with availableRows >= 3 and the wants exceeding them, the
\* channel list gets at least 3 rows in the branch where the description
\* wants two-thirds or more; in the branch where the description is small it
\* gets more than a third of the available rows, which is at least 3 rows
\* when availableRows >= 6 and at least 2 rows otherwise.
C4_ChannelFloor ==
    (view.rendered /\ availableRows >= 3 /\ wantedA + wantedB > availableRows)
        => /\ 3 * wantedA >= 2 * availableRows => rowsB >= 3
           /\ 3 * wantedA < 2 * availableRows
                 => /\ 3 * rowsB > availableRows
                    /\ rowsB >= 2
                    /\ availableRows >= 6 => rowsB >= 3

C4_Witness == Rendered(6, 5, 2) /\ rowsB = 3 /\ rowsA = 3

\* C5: between UI events, a snap name is a key of to_install if and only if
\* its checkbox in snap_boxes is checked.
C5_SelectedIffChecked ==
    DOMAIN to_install = {name \in DOMAIN snap_boxes : snap_boxes[name]}

\* Two rows, one unchecked and absent, one checked through a channel choice
\* and back on the main screen.
C5_Witness ==
    /\ w = Screen("main")
    /\ \E a \in DOMAIN snap_boxes, b \in DOMAIN snap_boxes :
           /\ ~snap_boxes[a] /\ a \notin DOMAIN to_install
           /\ snap_boxes[b] /\ b \in DOMAIN to_install
           /\ to_install[b].channel = "edge"

\* C6: a step that chooses the radio button of channel csi in the detail view
\* of S leaves S's checkbox checked and to_install[S] the selection of csi
\* (its name and is_classic), not the default 'stable' selection.
C6_ChosenChannelStored ==
    [][\A csi \in w.csis :
          (Active /\ NoOverlay /\ w.screen = "detail" /\ ChooseChannelOf(csi))
              => /\ snap_boxes'[w.snap]
                 /\ to_install'[w.snap] =
                        SnapSelection(csi.channel_name, csi.confinement = "classic")
       ]_vars

\* docker is classic, so checking its box writes ("stable", classic); after
\* the strict 'stable' channel is chosen the entry is ("stable", not classic).
C6_Witness ==
    /\ w.screen = "detail" /\ w.snap = "docker" /\ w.radio = "stable"
    /\ snap_boxes["docker"]
    /\ to_install["docker"] = SnapSelection("stable", FALSE)

\* C7: a list fetch whose callback ran before get_snap_list returned never
\* started a spinner, and an info fetch whose callback ran before
\* get_snap_info returned never got a FetchingInfo dialog: there are as many
\* FetchingInfo dialogs as info fetches whose callback did not run at once.
C7_NoSpinnerWhenSynchronous ==
    /\ \A i \in DOMAIN list_fetches :
           list_fetches[i].sync => list_fetches[i].spinner = "none"
    /\ Cardinality({d \in DOMAIN dialogs : dialogs[d].kind = "FetchingInfo"})
           = info_calls[FALSE]

C7_Witness ==
    /\ \E i \in DOMAIN list_fetches :
           list_fetches[i].sync /\ list_fetches[i].called
    /\ info_calls[TRUE] >= 1 /\ info_calls[FALSE] = 0
    /\ w.screen = "detail" /\ dialogs = <<>>

\* C8: every dialog's close takes effect exactly once, however often Cancel,
\* "Try again" and the fetch callback call it: remove_overlay is invoked at
\* most once per dialog, and spinner.stop at most once and only with it; and
\* once a dialog is closed no later step changes anything of it.
CloseCounts ==
    \A d \in DOMAIN dialogs :
        /\ dialogs[d].overlay_removes <= 1
        /\ dialogs[d].spinner_stops <= 1
        /\ dialogs[d].closed <=> dialogs[d].overlay_removes = 1
        /\ dialogs[d].kind = "FetchingInfo"
              => dialogs[d].spinner_stops = dialogs[d].overlay_removes
        /\ dialogs[d].kind = "FetchingFailed" => dialogs[d].spinner_stops = 0
C8_CloseOnce ==
    /\ []CloseCounts
    /\ [][\A d \in DOMAIN dialogs :
             dialogs[d].closed => dialogs'[d] = dialogs[d]]_vars

\* A FetchingInfo the user cancelled, a second FetchingInfo still open, and
\* on top of it the FetchingFailed of the first fetch, whose callback called
\* the close of the cancelled dialog a second time.
C8_Witness ==
    /\ Len(dialogs) = 3 /\ w.overlays = <<2, 3>>
    /\ dialogs[1].kind = "FetchingInfo" /\ dialogs[1].closed
    /\ dialogs[1].overlay_removes = 1 /\ dialogs[1].spinner_stops = 1
    /\ dialogs[2].kind = "FetchingInfo" /\ ~dialogs[2].closed
    /\ dialogs[3].kind = "FetchingFailed" /\ ~dialogs[3].closed

\* C9: cancel() invoked while the retry screen is shown calls
\* controller.cancel(), as it does while the main screen is shown.
C9_CancelFromRetry ==
    [][(w.screen \in {"retry", "main"} /\ Cancel)
          => /\ controller'.cancel = controller.cancel + 1
             /\ error' = "none"
       ]_vars

\* C10: when the seed file is missing in a real run (the install source
\* being a cp:// one), a list callback with a non-empty list builds the main
\* screen with a row for every fetched snap, and no error escapes.
C10_MissingSeedRecovered ==
    [][\A i \in DOMAIN list_fetches, snap_list \in SnapLists \ {{}}, e \in Envs :
          (/\ ~e.dry_run /\ e.sources_ok /\ e.seed.kind = "missing"
           /\ Active /\ LoadCallbackOf(i, snap_list, e))
              => /\ error' = "none"
                 /\ main_screen'
                 /\ w' = Screen("main")
                 /\ DOMAIN snap_boxes' = snap_list
       ]_vars

\* C11: a list callback with an empty list shows the retry screen and builds
\* no main screen; a list callback with a non-empty list builds the main
\* screen and shows it; "Try again" on the retry screen issues a new list
\* fetch; and at most one list fetch is outstanding at any time.
Outstanding == {i \in DOMAIN list_fetches : ~list_fetches[i].called}
C11_ListCallbackStates ==
    /\ [](Cardinality(Outstanding) <= 1)
    /\ [][\A i \in DOMAIN list_fetches, snap_list \in SnapLists, e \in Envs :
             (Active /\ LoadCallbackOf(i, snap_list, e))
                 => /\ error' = "none"
                    /\ snap_list = {}
                          => (w' = Screen("retry") /\ ~main_screen')
                    /\ snap_list # {}
                          => (w' = Screen("main") /\ main_screen')
          ]_vars
    /\ [][TryAgain => Len(list_fetches') = Len(list_fetches) + 1]_vars

\* C12: for every fetched list L and every set P of pre-seeded names that
\* get_preinstalled_snaps returns, the rows make_main_screen builds (the keys
\* of snap_boxes) are exactly the names of L that are not in P, each
\* unchecked; fetched {core, lxd, docker} with seed {lxd} gives the rows
\* {core, docker}.
C12_RowsAreFetchedMinusSeeded ==
    [][\A i \in DOMAIN list_fetches, L \in ListLists \ {{}}, e \in ListEnvs :
          LET P == get_preinstalled_snaps(e)
          IN  (Active /\ P.error = "none" /\ LoadCallbackOf(i, L, e))
                  => /\ DOMAIN snap_boxes' = L \ P.names
                     /\ \A n \in DOMAIN snap_boxes' : ~snap_boxes'[n]
                     /\ (L = {"core", "lxd", "docker"} /\ P.names = {"lxd"})
                           => DOMAIN snap_boxes' = {"core", "docker"}
       ]_vars

\* The main screen just built, with the rows core and docker and no lxd.
C12_Witness ==
    /\ w = Screen("main") /\ main_screen
    /\ DOMAIN snap_boxes = {"core", "docker"}
    /\ to_install = EmptyMap

\* C13: when the callback of an info fetch for snap S fires, no error
\* escapes it and: if S.channels is empty a new FetchingFailed dialog of S is
\* the topmost overlay and the screen under the overlays is the one that was
\* there; otherwise the screen becomes the detail view of S with no overlay,
\* whose preselected channel is to_install[S].channel when S is selected and
\* none when it is not.
C13_InfoCallbackOutcome ==
    [][\A f \in info_fetches, csis \in ChannelLists :
          (Active /\ Becomes(load_info_callback(St, f, csis)))
              => /\ error' = "none"
                 /\ csis = {}
                       => /\ w'.overlays # <<>>
                          /\ w'.overlays[Len(w'.overlays)] = Len(dialogs')
                          /\ Len(dialogs') = Len(dialogs) + 1
                          /\ dialogs'[Len(dialogs')] = FetchingFailed(f.snap)
                          /\ [w' EXCEPT !.overlays = <<>>]
                                 = [w EXCEPT !.overlays = <<>>]
                 /\ csis # {}
                       => /\ w'.screen = "detail" /\ w'.snap = f.snap
                          /\ w'.csis = csis /\ w'.overlays = <<>>
                          /\ w'.radio = IF f.snap \in DOMAIN to_install
                                        THEN to_install[f.snap].channel
                                        ELSE NoChannel
       ]_vars

\* C14: a step that activates Done (Continue on the loading screen or the
\* retry screen, Done on the main screen) calls controller.done once, with
\* exactly the contents of to_install, and leaves to_install as it was; on
\* the loading and retry screens that mapping is empty.
C14_DoneHandsOverSelections ==
    [][Done => /\ controller'.done = Append(controller.done, to_install)
               /\ to_install' = to_install
               /\ snap_boxes' = snap_boxes
               /\ error' = "none"
               /\ w.screen \in {"loading", "retry"} => to_install = EmptyMap
       ]_vars

\* Done on the main screen with docker selected on its edge channel and lxd
\* by its checkbox.
C14_Witness ==
    /\ controller.done = <<to_install>>
    /\ w = Screen("main")
    /\ DOMAIN to_install = {"lxd", "docker"}
    /\ to_install["docker"] = SnapSelection("edge", TRUE)
    /\ to_install["lxd"] = SnapSelection("stable", FALSE)

\* C15: for every whole-second age delta >= 0 of a timestamp,
\* format_datetime gives "just now" when delta < 60 s; floor(delta/60)
\* minutes when delta < 1 h; floor(delta/3600) hours when delta < 1 day;
\* floor(delta/86400) days when that is fewer than 30 days; else the
\* calendar date of the timestamp; the unit word is singular exactly when
\* the amount is 1 (59 s: just now, 60 s: 1 minute, 61 min: 1 hour, 25 h:
\* 1 day, 31 days: the date).
delta == formatted.now - formatted.d
AgoText(amount, singular) ==
    ago(amount, IF amount = 1 THEN singular ELSE singular \o "s")
C15_HumanizedAge ==
    (formatted # NoFormat /\ delta >= 0) =>
        /\ delta < 60 => formatted.text = "just now"
        /\ (60 <= delta /\ delta < 3600)
              => formatted.text = AgoText(delta \div 60, "minute")
        /\ (3600 <= delta /\ delta < 86400)
              => formatted.text = AgoText(delta \div 3600, "hour")
        /\ (86400 <= delta /\ delta < 30 * 86400)
              => formatted.text = AgoText(delta \div 86400, "day")
        /\ 30 * 86400 <= delta
              => formatted.text = str_date(formatted.d)
        /\ delta = 59 => formatted.text = "just now"
        /\ delta = 60 => formatted.text = " 1 minute ago"
        /\ delta = 61 * 60 => formatted.text = " 1 hour ago"
        /\ delta = 25 * 3600 => formatted.text = " 1 day ago"
        /\ delta = 31 * 86400 => formatted.text = str_date(formatted.d)

\* A timestamp 25 hours old, formatted as one day.
C15_Witness == delta = 25 * 3600 /\ formatted.text = " 1 day ago"

\* C16: after every render the description is selectable if and only if
\* rowsA < wantedA, and the right padding of the info table is 1 if and only
\* if rowsB < wantedB (and 0 otherwise); both flags depend on the latest
\* render alone: they are the flags a view never rendered before gets from
\* the same sizes.
C16_FlagsFollowLatestRender ==
    view.rendered =>
        /\ view.selectable <=> rowsA < wantedA
        /\ view.right = 1 <=> rowsB < wantedB
        /\ view.right = 0 <=> rowsB >= wantedB
        /\ \A right \in {0, 1} :
               LET fresh == render(NewSnapInfoView(right),
                                   availableRows, wantedA, wantedB)
               IN  /\ view.selectable = fresh.selectable
                   /\ view.right = fresh.right

\* split(10, 3, 20) = (3, 7): the description is shown whole and leaves the
\* focus order, the channel list is cut and gets its scroll column.
C16_Witness ==
    /\ Rendered(10, 3, 20) /\ rowsA = 3 /\ rowsB = 7
    /\ ~view.selectable /\ view.right = 1

\* C17: over the renders of one SnapInfoView the focus is moved to the first
\* selectable widget exactly once, by the first render: needs_focus is true
\* until the first render, false after it and for ever, and no later render
\* moves the focus again.
C17_FocusMovedOnce ==
    /\ [](/\ ~view.rendered => (view.needs_focus /\ view.focus_moves = 0)
          /\ view.rendered => (~view.needs_focus /\ view.focus_moves = 1))
    /\ [][/\ ~view.needs_focus => ~view'.needs_focus
          /\ view.rendered => view'.focus_moves = view.focus_moves]_vars

\* A view rendered more than once: the flags of its first render (both
\* wants fitted, so neither flag set) have since been replaced.
C17_Witness ==
    /\ view.rendered /\ ~view.needs_focus /\ view.focus_moves = 1
    /\ view.selectable /\ view.right = 1

\* C18: whenever the close of a dialog invokes remove_overlay, that dialog
\* is the topmost overlay of the screen at that moment (close is the first
\* thing its caller does), so remove_overlay is never applied to a screen
\* without overlay nor to the overlay of another dialog, whatever the order
\* of cancels, second fetches and callbacks.
C18_CloseRemovesOwnOverlay ==
    [][\A d \in DOMAIN dialogs :
          dialogs'[d].overlay_removes > dialogs[d].overlay_removes
              => (~NoOverlay /\ TopDialog = d)
       ]_vars

\* C19: in every reachable state the topmost overlay, a FetchingInfo or
\* FetchingFailed dialog, is not marked closed, so that its Cancel button
\* dismisses it.
C19_TopDialogOpen ==
    ~NoOverlay => ~dialogs[TopDialog].closed

\* C20 as stated: when the wants exceed the available rows, the two
\* allocations add up to the available rows and neither panel gets more rows
\* than it wants.
C20_Original ==
    (view.rendered /\ availableRows >= 0 /\ wantedA + wantedB > availableRows)
        => /\ rowsA + rowsB = availableRows
           /\ rowsA <= wantedA
           /\ rowsB <= wantedB

\* C20 as amended: when the wants exceed the available rows, the two
\* allocations add up to the available rows and the description never gets
\* more rows than it wants; the channel list gets more than it wants only in
\* the branch where the description wants two-thirds or more and the channel
\* list wants fewer than 3 rows, and then it gets exactly 3.
C20_ExactFitUpToChannelFloor ==
    (view.rendered /\ availableRows >= 0 /\ wantedA + wantedB > availableRows)
        => /\ rowsA + rowsB = availableRows
           /\ rowsA <= wantedA
           /\ rowsB <= Max(wantedB, 3)
           /\ rowsB > wantedB
                 <=> (3 * wantedA >= 2 * availableRows /\ wantedB < 3)
           /\ rowsB > wantedB => rowsB = 3

\* split(6, 6, 1) = (3, 3): the channel list wants 1 row and gets 3.
C20_Witness == Rendered(6, 6, 1) /\ rowsA = 3 /\ rowsB = 3

====
